---- MODULE Spec2Model ----
(***************************************************************************)
(* Head-controlled snake: the game engine (game_engine.py), the gesture    *)
(* classifier (gesture_recognition.py), the control bridge                 *)
(* (control_bridge.py) and the tick loop that drives them (main.py) as     *)
(* state machines.                                                         *)
(***************************************************************************)
EXTENDS Integers, Sequences, FiniteSets, TLC

(***************************************************************************)
(* Bounds of the model.                                                    *)
(***************************************************************************)
\* the grids explored are those of at most MaxCells cells: grid_width and
\* grid_height are drawn from 0..MaxCells with grid_width * grid_height <= MaxCells
MaxCells == 8
\* SpecDirection feeds position samples while the window holds fewer than
\* MaxSamples of them
MaxSamples == 4
\* SpecHold holds one gesture for at most MaxTicks ticks
MaxTicks == 41
\* SpecCadence: the caller makes at most MaxCalls update calls
MaxCalls == 10
\* SpecClassify: the newest sample lies within MaxDisplacement of the oldest
\* on each axis
MaxDisplacement == 31

(***************************************************************************)
(* Program constants.                                                      *)
(***************************************************************************)
BASE_SPEED == 10
BOOST_SPEED == 5
FOOD_SCORE == 10
INITIAL_LENGTH == 3
MAIN_GRID == 20
MOVEMENT_THRESHOLD == 30
HISTORY_SIZE == 10
MIN_HISTORY == 3
MIN_FINGERS == 3
PALM_MIN_AVG == 40
PALM_MIN_SPREAD == 50
FIST_MAX_AVG == 30
PAUSE_COOLDOWN == 30
BOOST_COOLDOWN == 10

None == "NONE"
Directions == {"UP", "DOWN", "LEFT", "RIGHT"}
Commands == Directions \cup {None}
\* the value of self.food before the first _spawn_food has returned
NoFood == <<>>
SpawnPcs == {"construct_spawn", "reset_spawn", "move_spawn"}
\* an absent position (Python None) and an absent keypoint dictionary
NoPos == <<>>
NoKeypoints == [l \in {} |-> <<>>]

VARIABLES
    \* ---- SnakeGame
    grid_width, grid_height,
    snake, food, direction, next_direction,
    score, game_over, paused, speed_counter,
    \* where the engine is: "ready" between calls; inside the loop of
    \* _spawn_food, called from __init__ ("construct_spawn"), from reset
    \* ("reset_spawn") or from _move_snake ("move_spawn"); "error" when the
    \* constructor raised
    pc,
    \* ---- GestureRecognition
    position_history, neutral_position, is_calibrated,
    gr_current_direction, gr_last_direction,
    pause_cooldown, boost_cooldown,
    \* ---- ControlBridge
    current_direction, boost_active, pause_triggered, last_move_direction,
    \* ---- the tick loop: the value get_pause_trigger last returned
    \* (main.py line 115), and what the loop is about to do
    pause_trigger, phase,
    \* ---- the held-gesture runs of SpecHold: the gesture held, the updates
    \* done so far, whether each carried a position, the cooldowns the run
    \* started with, and the true readings of get_pause_trigger so far
    held, hold_ticks, hold_present, hold_start, hold_trues,
    \* ---- the update calls made so far by the caller of SpecCadence
    calls,
    \* ---- the callers of SpecBridge: the last call made on the bridge, and
    \* the GestureRecognition.update calls that carried a position since the
    \* last trigger_pause that succeeded (-1 before the first one)
    last_call, since_pause

engine == <<grid_width, grid_height, snake, food, direction, next_direction,
            score, game_over, paused, speed_counter>>
engineVars == <<grid_width, grid_height, snake, food, direction,
                next_direction, score, game_over, paused, speed_counter, pc>>
gestureVars == <<position_history, neutral_position, is_calibrated,
                 gr_current_direction, gr_last_direction,
                 pause_cooldown, boost_cooldown>>
bridgeVars == <<current_direction, boost_active, pause_triggered,
                last_move_direction>>
loopVars == <<pause_trigger, phase>>
holdVars == <<held, hold_ticks, hold_present, hold_start, hold_trues>>
cadenceVars == <<calls>>
callVars == <<last_call, since_pause>>
vars == <<engineVars, gestureVars, bridgeVars, loopVars, holdVars,
          cadenceVars, callVars>>

(***************************************************************************)
(* SnakeGame helpers                                                       *)
(***************************************************************************)
Cells(s) == {s[i] : i \in 1..Len(s)}

GridCells(w, h) == (0..(w - 1)) \X (0..(h - 1))

Capacity == grid_width * grid_height

FreeCells == GridCells(grid_width, grid_height) \ Cells(snake)

\* the three cells listed tail first
InitialSnakeTailFirst(w, h) ==
    LET center_x == w \div 2
        center_y == h \div 2
    IN  << <<center_x - 2, center_y>>, <<center_x - 1, center_y>>,
           <<center_x, center_y>> >>

\* reset, lines 33-40: three cells, head first, on the centre row
InitialSnake(w, h) ==
    LET center_x == w \div 2
        center_y == h \div 2
    IN  << <<center_x, center_y>>, <<center_x - 1, center_y>>,
           <<center_x - 2, center_y>> >>

\* update, lines 64-69
Opposite(d) ==
    CASE d = "UP" -> "DOWN"
      [] d = "DOWN" -> "UP"
      [] d = "LEFT" -> "RIGHT"
      [] d = "RIGHT" -> "LEFT"
      [] OTHER -> None

\* a command accepted only while no other is buffered
BufferedDirectionFirstWins(direction_command, committed, buffered) ==
    IF /\ direction_command # None
       /\ direction_command # Opposite(committed)
       /\ buffered = committed
    THEN direction_command
    ELSE buffered

\* the reversal test made against the buffered direction
BufferedDirectionAgainstBuffered(direction_command, committed, buffered) ==
    IF direction_command # None /\ direction_command # Opposite(buffered)
    THEN direction_command
    ELSE buffered

\* every command accepted, the reversal test left out
BufferedDirectionUnchecked(direction_command, committed, buffered) ==
    IF direction_command # None THEN direction_command ELSE buffered

\* update, lines 63-72: the buffered direction after the command is looked at
BufferedDirection(direction_command, committed, buffered) ==
    IF direction_command # None /\ direction_command # Opposite(committed)
    THEN direction_command
    ELSE buffered

\* the boosted threshold used whatever the flag
CurrentSpeedAlwaysBoosted(boost) == BOOST_SPEED

\* update, line 75
CurrentSpeed(boost) == IF boost THEN BOOST_SPEED ELSE BASE_SPEED

\* the step made only once the counter has passed the threshold
StepDueLate(counter, boost) == counter > CurrentSpeed(boost)

\* update, line 79: the test made on the incremented counter
StepDue(counter, boost) == counter >= CurrentSpeed(boost)

\* _move_snake, lines 91-96
DirectionMap(d) ==
    CASE d = "UP" -> <<0, -1>>
      [] d = "DOWN" -> <<0, 1>>
      [] d = "LEFT" -> <<-1, 0>>
      [] d = "RIGHT" -> <<1, 0>>

\* _move_snake, lines 89-99
NewHead(s, d) == <<s[1][1] + DirectionMap(d)[1], s[1][2] + DirectionMap(d)[2]>>

\* the wall test without the top and bottom edges
HitsWallSidesOnly(c, w, h) == c[1] < 0 \/ c[1] >= w

\* the wall test without the right and bottom edges
HitsWallLowOnly(c, w, h) == c[1] < 0 \/ c[2] < 0

\* the wall test with the right and bottom edges one cell too far
HitsWallOffByOne(c, w, h) == c[1] < 0 \/ c[1] > w \/ c[2] < 0 \/ c[2] > h

\* _move_snake, lines 102-103
HitsWall(c, w, h) == c[1] < 0 \/ c[1] >= w \/ c[2] < 0 \/ c[2] >= h

\* the self test made after the tail has left
HitsSelfExceptTail(c, s) == c \in Cells(SubSeq(s, 1, Len(s) - 1))

\* _move_snake, line 108: tested against the whole snake, tail included
HitsSelf(c, s) == c \in Cells(s)

\* the tail popped also when the food is eaten
GrownDroppingTail(c, s) == SubSeq(<<c>> \o s, 1, Len(s))

\* _move_snake, line 113
Grown(c, s) == <<c>> \o s

\* the new head inserted and the tail never popped
ShiftedKeepingTail(c, s) == <<c>> \o s

\* _move_snake, lines 113 and 121
Shifted(c, s) == SubSeq(<<c>> \o s, 1, Len(s))

(***************************************************************************)
(* SnakeGame operations                                                    *)
(***************************************************************************)
\* __init__ up to its call of reset, and reset up to its call of _spawn_food,
\* for a grid of one of the sizes in `sizes`
EngineInit(sizes) ==
    /\ \E size \in sizes : grid_width = size[1] /\ grid_height = size[2]
    /\ snake = InitialSnake(grid_width, grid_height)
    /\ food = NoFood
    /\ direction = "RIGHT"
    /\ next_direction = "RIGHT"
    /\ score = 0
    /\ game_over = FALSE
    /\ paused = FALSE
    /\ speed_counter = 0
    /\ pc = "construct_spawn"

\* One pass of the loop of _spawn_food: random.randint raises ValueError on an
\* empty range; a drawn cell on the snake is rejected and the loop goes on.
\* On return the caller goes on: __init__ sets speed_counter (line 28),
\* reset and _move_snake store the cell and return.
\* the drawn cell tested against the snake without its head
FoodAcceptedOffBody(food_pos, s) == food_pos \notin Cells(Tail(s))

\* _spawn_food, line 130
FoodAccepted(food_pos, s) == food_pos \notin Cells(s)

SpawnFood ==
    /\ pc \in SpawnPcs
    /\ IF grid_width < 1 \/ grid_height < 1
       THEN /\ pc' = "error"
            /\ UNCHANGED <<food, speed_counter>>
       ELSE \E food_pos \in GridCells(grid_width, grid_height) :
              IF FoodAccepted(food_pos, snake)
              THEN /\ food' = food_pos
                   /\ pc' = "ready"
                   /\ speed_counter' =
                        IF pc = "construct_spawn" THEN 0 ELSE speed_counter
              ELSE UNCHANGED <<food, pc, speed_counter>>
    /\ UNCHANGED <<grid_width, grid_height, snake, direction, next_direction,
                   score, game_over, paused>>

\* reset, lines 30-49, up to the call of _spawn_food
Reset ==
    /\ pc = "ready"
    /\ snake' = InitialSnake(grid_width, grid_height)
    /\ direction' = "RIGHT"
    /\ next_direction' = "RIGHT"
    /\ score' = 0
    /\ game_over' = FALSE
    /\ paused' = FALSE
    /\ pc' = "reset_spawn"
    /\ UNCHANGED <<grid_width, grid_height, food, speed_counter>>

\* _move_snake, lines 83-121, entered with the buffered direction nd
MoveSnake(nd) ==
    LET new_head == NewHead(snake, nd)
    IN  /\ direction' = nd
        /\ IF HitsWall(new_head, grid_width, grid_height)
           THEN /\ game_over' = TRUE
                /\ UNCHANGED <<snake, food, score, pc>>
           ELSE IF HitsSelf(new_head, snake)
           THEN /\ game_over' = TRUE
                /\ UNCHANGED <<snake, food, score, pc>>
           ELSE IF new_head = food
           THEN /\ snake' = Grown(new_head, snake)
                /\ score' = score + FOOD_SCORE
                /\ pc' = "move_spawn"
                /\ UNCHANGED <<food, game_over>>
           ELSE /\ snake' = Shifted(new_head, snake)
                /\ UNCHANGED <<food, score, game_over, pc>>

\* no early return at all
HaltedNever(over, is_paused) == FALSE

\* the early return taken only when the game is over
HaltedOnlyWhenOver(over, is_paused) == over

\* update, line 59
Halted(over, is_paused) == over \/ is_paused

\* update, lines 51-81
Update(direction_command, boost) ==
    /\ pc = "ready"
    /\ IF Halted(game_over, paused)
       THEN UNCHANGED <<snake, food, direction, next_direction, score,
                       game_over, speed_counter, pc>>
       ELSE LET nd == BufferedDirection(direction_command, direction,
                                        next_direction)
            IN  /\ next_direction' = nd
                /\ IF StepDue(speed_counter + 1, boost)
                   THEN /\ speed_counter' = 0
                        /\ MoveSnake(nd)
                   ELSE /\ speed_counter' = speed_counter + 1
                        /\ UNCHANGED <<snake, food, direction, score,
                                       game_over, pc>>
    /\ UNCHANGED <<grid_width, grid_height, paused>>

\* the flag flipped whether or not the game is over
ToggledAlsoWhenOver(is_paused, over) == ~is_paused

\* the flag flipped only when the game is over
ToggledOnlyWhenOver(is_paused, over) == IF over THEN ~is_paused ELSE is_paused

\* toggle_pause, lines 135-136
Toggled(is_paused, over) == IF over THEN is_paused ELSE ~is_paused

\* toggle_pause, lines 133-136
TogglePause ==
    /\ pc = "ready"
    /\ paused' = Toggled(paused, game_over)
    /\ UNCHANGED <<grid_width, grid_height, snake, food, direction,
                   next_direction, score, game_over, speed_counter, pc>>

(***************************************************************************)
(* GestureRecognition                                                      *)
(***************************************************************************)
Abs(n) == IF n < 0 THEN -n ELSE n

FingerTips == <<"thumb", "index", "middle", "ring", "pinky">>
Landmarks == {"wrist", "thumb", "index", "middle", "ring", "pinky"}

\* update, line 61: a deque of maxlen history_size, the oldest sample leaves
Appended(history, position) ==
    IF Len(history) < HISTORY_SIZE
    THEN Append(history, position)
    ELSE Append(Tail(history), position)

\* a cooldown that runs down two at a time
DecrementedByTwo(cooldown) == IF cooldown > 1 THEN cooldown - 2 ELSE 0

\* update, lines 64-67
Decremented(cooldown) == IF cooldown > 0 THEN cooldown - 1 ELSE cooldown

\* the sample appended also when there is none
HistoryAppendingAlways(history, position) == Appended(history, position)

\* update, lines 57-67: the history and a cooldown after the call
HistoryAfterUpdate(history, position) ==
    IF position = NoPos THEN history ELSE Appended(history, position)

\* the cooldown ticking also on a call without a position
CooldownTickingAlways(cooldown, position) == Decremented(cooldown)

CooldownAfterUpdate(cooldown, position) ==
    IF position = NoPos THEN cooldown ELSE Decremented(cooldown)

\* two samples taken as enough
HistoryTooShortUnderTwo(history) == Len(history) < 2

\* get_direction, line 79
HistoryTooShort(history) == Len(history) < MIN_HISTORY

\* the horizontal axis taken also on a tie
HorizontalOnTie(dx, dy) == Abs(dx) >= Abs(dy)

\* get_direction, line 93
Horizontal(dx, dy) == Abs(dx) > Abs(dy)

\* a displacement of exactly the threshold rejected too
BelowOrAtThreshold(d) == Abs(d) <= MOVEMENT_THRESHOLD

\* get_direction, lines 95 and 103
BelowThreshold(d) == Abs(d) < MOVEMENT_THRESHOLD

\* get_direction, lines 79-113: the value returned
GetDirection(history) ==
    IF HistoryTooShort(history)
    THEN None
    ELSE LET recent == history[Len(history)]
             older == history[1]
             dx == recent[1] - older[1]
             dy == recent[2] - older[2]
         IN  IF Horizontal(dx, dy)
             THEN IF BelowThreshold(dx) THEN None
                  ELSE IF dx > 0 THEN "RIGHT" ELSE "LEFT"
             ELSE IF BelowThreshold(dy) THEN None
                  ELSE IF dy > 0 THEN "DOWN" ELSE "UP"

\* the whole-number square root of n, by Newton's iteration from x >= sqrt(n)
RECURSIVE Newton(_, _)
Newton(n, x) ==
    LET y == (x + n \div x) \div 2
    IN  IF y >= x THEN x ELSE Newton(n, y)

\* np.sqrt(dx**2 + dy**2), lines 151, 159, 198. The landmark sets of the model
\* have whole-number distances; any other distance is left undefined.
Distance(p, q) ==
    LET dx == Abs(p[1] - q[1])
        dy == Abs(p[2] - q[2])
        n == dx * dx + dy * dy
        r == IF n = 0 THEN 0 ELSE Newton(n, dx + dy)
    IN  IF r * r = n THEN r ELSE CHOOSE x \in {} : TRUE

\* lines 129-130 and 188-189: the fingertips present, in the order of the list
ValidFingers(keypoints) ==
    SelectSeq(FingerTips, LAMBDA f : keypoints[f] # NoPos)

RECURSIVE SumSeq(_)
SumSeq(q) == IF q = <<>> THEN 0 ELSE Head(q) + SumSeq(Tail(q))

\* lines 149-152 and 195-202: the distances of the fingertips from the wrist
WristDistances(keypoints) ==
    LET valid == ValidFingers(keypoints)
    IN  [i \in 1..Len(valid) |-> Distance(keypoints[valid[i]], keypoints["wrist"])]

\* is_open_palm, lines 115-168; np.mean(d) > t is sum(d) > t * len(d)
IsOpenPalm(keypoints) ==
    IF DOMAIN keypoints = {} THEN FALSE
    ELSE IF Len(ValidFingers(keypoints)) < MIN_FINGERS THEN FALSE
    ELSE IF keypoints["wrist"] = NoPos THEN FALSE
    ELSE LET valid == ValidFingers(keypoints)
             distances == WristDistances(keypoints)
             index_pinky_dist == Distance(keypoints[valid[1]],
                                          keypoints[valid[Len(valid)]])
         IN  /\ SumSeq(distances) > PALM_MIN_AVG * Len(distances)
             /\ index_pinky_dist > PALM_MIN_SPREAD

\* is_closed_fist, lines 170-211
IsClosedFist(keypoints) ==
    IF DOMAIN keypoints = {} THEN FALSE
    ELSE IF keypoints["wrist"] = NoPos THEN FALSE
    ELSE IF Len(ValidFingers(keypoints)) < MIN_FINGERS THEN FALSE
    ELSE LET distances == WristDistances(keypoints)
         IN  SumSeq(distances) < FIST_MAX_AVG * Len(distances)

\* the trigger rearmed one tick early
TriggerSucceedsEarly(cooldown) == cooldown <= 1

\* trigger_pause and trigger_boost, lines 215 and 222: whether the call succeeds
TriggerSucceeds(cooldown) == cooldown = 0

(***************************************************************************)
(* The landmark sets and position samples fed to the model                 *)
(***************************************************************************)
Hand(wrist, thumb, index, middle, ring, pinky) ==
    [l \in Landmarks |->
        CASE l = "wrist" -> wrist
          [] l = "thumb" -> thumb
          [] l = "index" -> index
          [] l = "middle" -> middle
          [] l = "ring" -> ring
          [] l = "pinky" -> pinky]

\* fingertips 10 to 25 from the wrist: mean 17
FistHand ==
    Hand(<<100, 100>>, <<110, 100>>, <<100, 85>>, <<100, 80>>, <<112, 84>>,
         <<125, 100>>)
\* fingertips 50 to 60 from the wrist, thumb to pinky 120 apart
PalmHand ==
    Hand(<<100, 100>>, <<40, 100>>, <<100, 50>>, <<100, 40>>, <<130, 60>>,
         <<160, 100>>)
\* fingertips 35 from the wrist: neither open nor closed
RelaxedHand ==
    Hand(<<100, 100>>, <<65, 100>>, <<100, 65>>, <<100, 65>>, <<100, 65>>,
         <<135, 100>>)
\* fingertips 50 from the wrist but thumb to pinky only 28 apart
NarrowHand ==
    Hand(<<100, 100>>, <<86, 52>>, <<100, 50>>, <<100, 50>>, <<100, 50>>,
         <<114, 52>>)
\* a closed hand of which only two fingertips were detected
TwoFingerHand ==
    Hand(<<100, 100>>, <<110, 100>>, NoPos, NoPos, NoPos, <<125, 100>>)
\* an open hand whose wrist was not detected
NoWristHand ==
    Hand(NoPos, <<40, 100>>, <<100, 50>>, <<100, 40>>, <<130, 60>>,
         <<160, 100>>)

\* the dictionary vision.py builds (lines 200-203): head landmarks only
HeadOnly == Hand(NoPos, NoPos, NoPos, NoPos, NoPos, NoPos)

KeypointSets ==
    {NoKeypoints, FistHand, PalmHand, RelaxedHand, NarrowHand, TwoFingerHand,
     NoWristHand, HeadOnly}

\* a sample at rest and samples 40 to its right, left, below and above
Origin == <<0, 0>>
SamplePositions == {Origin, <<40, 0>>, <<-40, 0>>, <<0, 40>>, <<0, -40>>}

(***************************************************************************)
(* ControlBridge                                                           *)
(***************************************************************************)
\* update, lines 64-69 of game_engine.py and lines 49-54 of control_bridge.py
\* are the same table: Opposite

\* the reversal test left out
AcceptsAnyDirection(d, last_move) == d # None

\* _update_direction, lines 45-63: whether the classified direction is taken
AcceptsDirection(d, last_move) ==
    /\ d # None
    /\ \/ last_move = None
       \/ d # Opposite(last_move)

\* ControlBridge.__init__ and GestureRecognition.__init__
BridgeInit ==
    /\ position_history = <<>>
    /\ neutral_position = NoPos
    /\ is_calibrated = FALSE
    /\ gr_current_direction = None
    /\ gr_last_direction = None
    /\ pause_cooldown = 0
    /\ boost_cooldown = 0
    /\ current_direction = None
    /\ boost_active = FALSE
    /\ pause_triggered = FALSE
    /\ last_move_direction = None

\* a pending flag kept when the fist is seen open
PauseFlagKeptOnOpenFist(flag) == flag

\* _update_pause, lines 77-78: the flag when the fist is not closed
PauseFlagOnOpenFist(flag) == FALSE

\* the cooldowns set back to 0 by reset
CooldownZeroedByReset(cooldown) == 0

\* GestureRecognition.reset, lines 227-233: no cooldown is assigned
CooldownAfterReset(cooldown) == cooldown

\* ControlBridge.update, lines 20-41, with the calls it makes:
\* GestureRecognition.update, get_direction, is_open_palm, is_closed_fist,
\* _update_direction, _update_boost (trigger_boost), _update_pause
\* (trigger_pause)
BridgeUpdate(head_position, keypoints) ==
    LET history == HistoryAfterUpdate(position_history, head_position)
        pause_cd == CooldownAfterUpdate(pause_cooldown, head_position)
        boost_cd == CooldownAfterUpdate(boost_cooldown, head_position)
        d == GetDirection(history)
        is_open_palm == IsOpenPalm(keypoints)
        is_closed_fist == IsClosedFist(keypoints)
    IN  /\ position_history' = history
        \* get_direction, lines 110-111
        /\ gr_last_direction' =
             IF d # None THEN gr_current_direction ELSE gr_last_direction
        /\ gr_current_direction' = IF d # None THEN d ELSE gr_current_direction
        \* _update_direction
        /\ IF AcceptsDirection(d, last_move_direction)
           THEN current_direction' = d /\ last_move_direction' = d
           ELSE UNCHANGED <<current_direction, last_move_direction>>
        \* _update_boost: trigger_boost is called only when the palm is open
        /\ IF is_open_palm /\ TriggerSucceeds(boost_cd)
           THEN boost_active' = TRUE /\ boost_cooldown' = BOOST_COOLDOWN
           ELSE boost_active' = FALSE /\ boost_cooldown' = boost_cd
        \* _update_pause: trigger_pause is called only when the fist is closed
        /\ IF is_closed_fist
           THEN IF TriggerSucceeds(pause_cd)
                THEN pause_triggered' = TRUE /\ pause_cooldown' = PAUSE_COOLDOWN
                ELSE pause_triggered' = pause_triggered /\ pause_cooldown' = pause_cd
           ELSE /\ pause_triggered' = PauseFlagOnOpenFist(pause_triggered)
                /\ pause_cooldown' = pause_cd
        /\ UNCHANGED <<neutral_position, is_calibrated>>

\* the flag read and not cleared
GetPauseTriggerWithoutClear ==
    /\ pause_trigger' = pause_triggered
    /\ UNCHANGED <<gestureVars, bridgeVars>>

\* get_pause_trigger, lines 88-93; the value returned goes to pause_trigger
GetPauseTrigger ==
    /\ pause_trigger' = pause_triggered
    /\ pause_triggered' = FALSE
    /\ UNCHANGED <<gestureVars, current_direction, boost_active,
                   last_move_direction>>

\* the position appended to a history that was not cleared
CalibratedHistoryWithoutClear(history, head_position) ==
    Appended(history, head_position)

\* GestureRecognition.calibrate, lines 45-46: clear, then append
CalibratedHistory(history, head_position) == <<head_position>>

\* ControlBridge.calibrate, lines 95-97, and GestureRecognition.calibrate,
\* lines 35-47
BridgeCalibrate(head_position) ==
    /\ IF head_position # NoPos
       THEN /\ neutral_position' = head_position
            /\ is_calibrated' = TRUE
            /\ position_history' =
                 CalibratedHistory(position_history, head_position)
       ELSE UNCHANGED <<neutral_position, is_calibrated, position_history>>
    /\ UNCHANGED <<gr_current_direction, gr_last_direction, pause_cooldown,
                   boost_cooldown, bridgeVars>>

\* ControlBridge.reset, lines 103-109, and GestureRecognition.reset,
\* lines 227-233
BridgeReset ==
    /\ position_history' = <<>>
    /\ gr_current_direction' = None
    /\ gr_last_direction' = None
    /\ is_calibrated' = FALSE
    /\ neutral_position' = NoPos
    /\ current_direction' = None
    /\ boost_active' = FALSE
    /\ pause_triggered' = FALSE
    /\ last_move_direction' = None
    /\ pause_cooldown' = CooldownAfterReset(pause_cooldown)
    /\ boost_cooldown' = CooldownAfterReset(boost_cooldown)

(***************************************************************************)
(* Specifications                                                          *)
(***************************************************************************)
LoopInit == pause_trigger = FALSE /\ phase = "update" /\ calls = 0

NoCalls == last_call = "none" /\ since_pause = -1

NoHold ==
    /\ held = "none"
    /\ hold_ticks = 0
    /\ hold_present = TRUE
    /\ hold_start = <<0, 0>>
    /\ hold_trues = 0

\* the grids of the engine specification
SmallGrids ==
    {g \in (0..MaxCells) \X (0..MaxCells) : g[1] * g[2] <= MaxCells}

\* SnakeGame(grid_width=20, grid_height=20, cell_size=20), main.py line 18
MainGrid == {<<MAIN_GRID, MAIN_GRID>>}

\* ---- Spec: a SnakeGame on a small grid under any sequence of update,
\* toggle_pause and reset calls
Init ==
    EngineInit(SmallGrids) /\ BridgeInit /\ LoopInit /\ NoHold /\ NoCalls

UpdateStep ==
    \E direction_command \in Commands, boost \in BOOLEAN :
        Update(direction_command, boost)

Next ==
    \/ SpawnFood /\ UNCHANGED <<gestureVars, bridgeVars, loopVars, holdVars,
                              cadenceVars, callVars>>
    \/ Reset /\ UNCHANGED <<gestureVars, bridgeVars, loopVars, holdVars,
                              cadenceVars, callVars>>
    \/ TogglePause /\ UNCHANGED <<gestureVars, bridgeVars, loopVars, holdVars,
                              cadenceVars, callVars>>
    \/ UpdateStep /\ UNCHANGED <<gestureVars, bridgeVars, loopVars, holdVars,
                              cadenceVars, callVars>>

Spec == Init /\ [][Next]_vars

(***************************************************************************)
(* Properties of SnakeGame, checked under Spec                             *)
(***************************************************************************)
Running == pc = "ready" /\ ~game_over /\ ~paused

\* an update call that performs a movement step
SteppingUpdate(direction_command, boost) ==
    /\ Update(direction_command, boost)
    /\ ~game_over /\ ~paused
    /\ speed_counter + 1 >= CurrentSpeed(boost)

\* the cell a movement step of that call would enter
SteppedCell(direction_command) ==
    NewHead(snake, BufferedDirection(direction_command, direction,
                                     next_direction))

\* C1: under any sequence of update calls, the direction committed by a call
\* is never the exact opposite of the direction committed before it.
C1_NoReversalCommitted ==
    [][UpdateStep => direction' # Opposite(direction)]_vars

\* a second turn has been committed: the snake, started RIGHT, heads LEFT
C1_Witness ==
    Running /\ grid_width >= 4 /\ grid_height >= 2 /\ direction = "LEFT"

\* C3: a movement step whose new head is a cell of the snake, the tail cell
\* included, sets game_over and leaves snake, food and score as they were.
C3_SelfCollision ==
    [][\A direction_command \in Commands, boost \in BOOLEAN :
          (/\ SteppingUpdate(direction_command, boost)
           /\ SteppedCell(direction_command) \in Cells(snake))
          => (game_over' /\ snake' = snake /\ food' = food /\ score' = score)
      ]_vars

\* the game ended on a step into the cell the tail was about to leave
C3_Witness ==
    /\ pc = "ready" /\ game_over
    /\ grid_width >= 4 /\ grid_height >= 2
    /\ ~HitsWall(NewHead(snake, direction), grid_width, grid_height)
    /\ NewHead(snake, direction) = snake[Len(snake)]

\* C4: a successful movement step onto the food cell lengthens the snake by
\* exactly 1 (the tail stays) and raises the score by exactly 10; a successful
\* step onto another cell prepends the new head, removes the last cell and
\* leaves length and score unchanged.
C4_Growth ==
    [][\A direction_command \in Commands, boost \in BOOLEAN :
          LET new_head == SteppedCell(direction_command)
          IN  (/\ SteppingUpdate(direction_command, boost)
               /\ new_head[1] \in 0..(grid_width - 1)
               /\ new_head[2] \in 0..(grid_height - 1)
               /\ new_head \notin Cells(snake))
              => IF new_head = food
                 THEN /\ snake' = <<new_head>> \o snake
                      /\ Len(snake') = Len(snake) + 1
                      /\ score' = score + 10
                 ELSE /\ snake' = <<new_head>>
                                    \o SubSeq(snake, 1, Len(snake) - 1)
                      /\ Len(snake') = Len(snake)
                      /\ score' = score
      ]_vars

\* the snake has just eaten its first food
C4_Witness ==
    /\ pc = "move_spawn" /\ Len(snake) = 4 /\ score = 10
    /\ grid_width >= 4 /\ grid_height >= 2

\* the cell next to the head in direction d lies outside the grid
HeadAtBoundary(d) ==
    LET c == NewHead(snake, d)
    IN  c[1] < 0 \/ c[1] >= grid_width \/ c[2] < 0 \/ c[2] >= grid_height

\* C5 as claimed: in every RUNNING state with the head next to a boundary, the
\* direction toward that boundary is not filtered as a reversal, and the
\* update call that carries it into a movement step sets game_over.
C5_WallCollisionAnyGrid ==
    [][\A d \in Directions, boost \in BOOLEAN :
          (Running /\ HeadAtBoundary(d))
          => /\ d # Opposite(direction)
             /\ SteppingUpdate(d, boost) => game_over'
      ]_vars

\* C5, amended: the same on grids at least 2 cells wide.
C5_WallCollision ==
    [][\A d \in Directions, boost \in BOOLEAN :
          (Running /\ grid_width >= 2 /\ HeadAtBoundary(d))
          => /\ d # Opposite(direction)
             /\ SteppingUpdate(d, boost) => game_over'
      ]_vars

\* the game ended on a step into the bottom wall, after a turn
C5_Witness ==
    /\ pc = "ready" /\ game_over /\ grid_width >= 4 /\ grid_height >= 2
    /\ direction = "DOWN"
    /\ NewHead(snake, direction)[2] >= grid_height

\* the loop of _spawn_food can neither return nor raise
SpawnHangs ==
    /\ pc \in SpawnPcs
    /\ grid_width >= 1 /\ grid_height >= 1
    /\ FreeCells = {}

\* C9: a SnakeGame whose grid holds no more cells than the initial snake is
\* rejected at construction: the constructor neither returns an engine nor
\* hangs in _spawn_food.
C9_SmallGridRejected ==
    (Capacity <= INITIAL_LENGTH)
    => (pc \in {"construct_spawn", "error"} /\ ~SpawnHangs)

\* C10: in every state of a constructed SnakeGame, also inside the respawn
\* that follows a growth, grid_width * grid_height > len(snake).
C10_CapacityExceedsLength ==
    (pc \in {"ready", "reset_spawn", "move_spawn"})
    => (Capacity > Len(snake))

\* C14: an update call in the RUNNING state adds 1 to the step counter; it
\* performs a movement step iff the incremented counter is at least 5 when
\* that call is boosted and at least 10 otherwise, and then the counter is
\* back at 0 and one step has run (the committed direction is the buffered
\* one, and the game is over or the head has entered the next cell);
\* otherwise the counter keeps the incremented value and snake, food and
\* score are unchanged. The counter is in 0..9 between calls.
C14_StepCadence ==
    [][\A direction_command \in Commands, boost \in BOOLEAN :
          (Update(direction_command, boost) /\ ~game_over /\ ~paused)
          => LET incremented == speed_counter + 1
                 threshold == IF boost THEN 5 ELSE 10
             IN  /\ speed_counter \in 0..9 /\ speed_counter' \in 0..9
                 /\ IF incremented >= threshold
                    THEN /\ speed_counter' = 0
                         /\ direction' = next_direction'
                         /\ \/ game_over' /\ snake' = snake
                            \/ /\ ~game_over'
                               /\ snake'[1] = SteppedCell(direction_command)
                               /\ Tail(snake') \in {snake,
                                     SubSeq(snake, 1, Len(snake) - 1)}
                    ELSE /\ speed_counter' = incremented
                         /\ snake' = snake /\ food' = food
                         /\ score' = score /\ ~game_over'
      ]_vars

\* a boosted step has run with the counter at 4 and the counter has since
\* come up to 9 without another step
C14_Witness ==
    /\ Running /\ speed_counter = 9
    /\ grid_width >= 4 /\ grid_height >= 2
    /\ snake # InitialSnake(grid_width, grid_height)

\* C15: an update call made while the game is over or paused changes nothing:
\* snake, food, score, committed and buffered direction, step counter, paused
\* flag and game_over flag are as before, whatever the command and the flag.
C15_UpdateNoOpWhenHalted ==
    [][\A direction_command \in Commands, boost \in BOOLEAN :
          (Update(direction_command, boost) /\ (game_over \/ paused))
          => UNCHANGED <<snake, food, score, direction, next_direction,
                         speed_counter, paused, game_over>>
      ]_vars

\* the game was paused between two steps, with a turn buffered: an update
\* call would otherwise count, and the tenth would step
C15_Witness ==
    /\ pc = "ready" /\ paused /\ ~game_over
    /\ grid_width >= 4 /\ grid_height >= 2
    /\ speed_counter = 9 /\ next_direction # direction

\* C16: toggle_pause flips paused when the game is not over and changes
\* nothing when it is over; snake, food, score, both directions, the step
\* counter and game_over are unchanged, and a second toggle_pause made right
\* after gives back the paused flag of before the first.
C16_TogglePause ==
    [][TogglePause =>
          /\ ~game_over => paused' = ~paused
          /\ game_over => paused' = paused
          /\ UNCHANGED <<snake, food, score, direction, next_direction,
                         speed_counter, game_over>>
          /\ Toggled(paused', game_over') = paused
      ]_vars

\* the game was paused after the snake had eaten and turned
C16_Witness ==
    /\ pc = "ready" /\ paused /\ ~game_over
    /\ grid_width >= 4 /\ grid_height >= 2
    /\ score = 10 /\ direction # "RIGHT"

\* C17: the engine starts RUNNING; game_over becomes true only in an update
\* call made while RUNNING, never while PAUSED; once true it stays true under
\* update and toggle_pause, and it becomes false again only in reset, which
\* leaves the engine RUNNING.
C17_StateMachine ==
    [][/\ (pc = "construct_spawn") => (~game_over /\ ~paused)
       /\ (~game_over /\ game_over') => (UpdateStep /\ Running)
       /\ (game_over /\ (UpdateStep \/ TogglePause)) => game_over'
       /\ (game_over /\ ~game_over') => (Reset /\ ~paused')
       /\ (game_over /\ paused') => paused
      ]_vars

\* an update call made while RUNNING ended the game of a snake that had eaten
C17_Witness ==
    /\ pc = "ready" /\ game_over /\ ~paused
    /\ grid_width >= 4 /\ grid_height >= 2
    /\ score = 10 /\ Len(snake) = 4

\* an update call whose movement step runs into a wall or into the snake
CollidingUpdate(direction_command, boost) ==
    LET new_head == SteppedCell(direction_command)
    IN  /\ SteppingUpdate(direction_command, boost)
        /\ \/ new_head[1] < 0 \/ new_head[1] >= grid_width
           \/ new_head[2] < 0 \/ new_head[2] >= grid_height
           \/ new_head \in Cells(snake)

\* C18 as claimed: a movement step that detects a collision changes the
\* game_over flag only: committed direction, buffered direction (as update
\* left it), snake, food and score are as they were before the step. Stated
\* for the grids wide enough to hold the initial snake.
C18_CollisionChangesFlagOnly ==
    [][\A direction_command \in Commands, boost \in BOOLEAN :
          (CollidingUpdate(direction_command, boost) /\ grid_width >= 4)
          => /\ game_over'
             /\ direction' = direction
             /\ next_direction' = BufferedDirection(direction_command,
                                                    direction, next_direction)
             /\ snake' = snake /\ food' = food /\ score' = score
      ]_vars

\* C18, amended: a movement step that detects a collision has committed the
\* buffered direction and set game_over, and nothing else: buffered
\* direction, snake, food, score, paused flag and the counter (0 since update
\* reset it) are as they were before the step.
C18_CollisionAtomicity ==
    [][\A direction_command \in Commands, boost \in BOOLEAN :
          CollidingUpdate(direction_command, boost)
          => /\ game_over'
             /\ next_direction' = BufferedDirection(direction_command,
                                                    direction, next_direction)
             /\ direction' = next_direction'
             /\ snake' = snake /\ food' = food /\ score' = score
             /\ paused' = paused /\ speed_counter' = 0
      ]_vars

\* the game ended when the snake, moving right along the top row, turned up
\* into the wall: the turn was committed by the step that collided
C18_Witness ==
    /\ pc = "ready" /\ game_over
    /\ grid_width >= 4 /\ grid_height >= 2
    /\ direction = "UP"
    /\ snake[1][2] = 0
    /\ snake[2] = <<snake[1][1] - 1, 0>>

\* what reset leaves in the engine, apart from the food
ResetOutcome ==
    LET cx == grid_width \div 2
        cy == grid_height \div 2
    IN  /\ snake = << <<cx, cy>>, <<cx - 1, cy>>, <<cx - 2, cy>> >>
        /\ direction = "RIGHT" /\ next_direction = "RIGHT"
        /\ score = 0 /\ ~game_over /\ ~paused

\* C19: reset, called in any engine state, re-seeds the snake head first at
\* (cx, cy), (cx-1, cy), (cx-2, cy) with cx = grid_width // 2 and
\* cy = grid_height // 2, sets both directions to RIGHT, the score to 0 and
\* both flags to false, and returns with a food cell that is not on the
\* snake.
C19_ResetOutcome ==
    [][/\ Reset => ResetOutcome'
       /\ (pc = "reset_spawn" /\ pc' = "ready")
            => (ResetOutcome' /\ food' \notin Cells(snake'))
      ]_vars

\* reset was called in a game whose food lay where the snake is re-seeded,
\* and is about to draw the new food
C19_Witness ==
    /\ pc = "reset_spawn"
    /\ grid_width >= 4 /\ grid_height >= 2
    /\ food \in Cells(snake)

\* C20: an update call in the RUNNING state accepts its command iff it is
\* non-null and not the opposite of the committed direction, whatever is
\* buffered; an accepted command overwrites the buffered direction and a
\* refused one leaves it; a call without a movement step leaves the committed
\* direction unchanged, and a movement step commits the buffered direction,
\* which is the last command accepted since the previous step.
C20_DoubleBuffered ==
    [][\A direction_command \in Commands, boost \in BOOLEAN :
          (Update(direction_command, boost) /\ ~game_over /\ ~paused)
          => LET accepted ==
                     /\ direction_command # None
                     /\ ~(direction = "UP" /\ direction_command = "DOWN")
                     /\ ~(direction = "DOWN" /\ direction_command = "UP")
                     /\ ~(direction = "LEFT" /\ direction_command = "RIGHT")
                     /\ ~(direction = "RIGHT" /\ direction_command = "LEFT")
                 stepped == speed_counter + 1 >= (IF boost THEN 5 ELSE 10)
             IN  /\ next_direction' = IF accepted THEN direction_command
                                      ELSE next_direction
                 /\ ~stepped => direction' = direction
                 /\ stepped => direction' = next_direction'
      ]_vars

\* between two steps a turn is buffered over an earlier one and not yet
\* committed
C20_Witness ==
    /\ Running /\ grid_width >= 4 /\ grid_height >= 2
    /\ speed_counter >= 2
    /\ direction = "UP" /\ next_direction = "LEFT"

\* C11: every _spawn_food entered from reset or from a movement step that ate
\* the food finds a free cell to draw: the engine is never inside the
\* rejection loop with every cell of the grid on the snake.
C11_SpawnHasFreeCell ==
    (pc \in SpawnPcs /\ grid_width >= 1 /\ grid_height >= 1)
    => FreeCells # {}

\* C12: between calls, after reset or any update has returned, the food cell
\* lies inside the grid and on no snake cell, the head of a snake that has
\* just grown included.
C12_FoodPlacement ==
    pc = "ready"
    => /\ food \in GridCells(grid_width, grid_height)
       /\ food \notin Cells(snake)

\* the food has been respawned after the snake ate and grew
C12_Witness ==
    /\ pc = "ready" /\ Len(snake) = 4 /\ score = 10
    /\ grid_width >= 4 /\ grid_height >= 2
    /\ food \in FreeCells

\* ---- SpecCadence: SnakeGame(20, 20) is constructed, reset is called once,
\* then update('RIGHT', False) is called up to MaxCalls times
InitCadence ==
    /\ EngineInit(MainGrid) /\ BridgeInit /\ NoHold /\ NoCalls
    /\ pause_trigger = FALSE
    /\ phase = "reset"
    /\ calls = 0

CadenceSpawn ==
    /\ SpawnFood
    /\ UNCHANGED <<gestureVars, bridgeVars, loopVars, holdVars, cadenceVars, callVars>>

CadenceReset ==
    /\ phase = "reset"
    /\ Reset
    /\ phase' = "update"
    /\ UNCHANGED <<gestureVars, bridgeVars, pause_trigger, holdVars,
                   cadenceVars, callVars>>

CadenceUpdate ==
    /\ phase = "update"
    /\ calls < MaxCalls
    /\ Update("RIGHT", FALSE)
    /\ calls' = calls + 1
    /\ UNCHANGED <<gestureVars, bridgeVars, loopVars, holdVars, callVars>>

NextCadence == CadenceSpawn \/ CadenceReset \/ CadenceUpdate

SpecCadence == InitCadence /\ [][NextCadence]_vars

\* the snake of a 20x20 grid after one step to the right
SteppedRight ==
    LET s == InitialSnake(MAIN_GRID, MAIN_GRID)
    IN  << <<s[1][1] + 1, s[1][2]>>, s[1], s[2] >>

\* C13: on a 20x20 grid, after construction and reset, calls 1 to 9 of
\* update('RIGHT', False) change no snake cell and call 10 performs the one
\* movement step: when the food is not on the entered cell the head moves one
\* cell right, the tail cell is removed and the length stays 3.
C13_EndToEndCadence ==
    [][CadenceUpdate =>
          /\ calls' <= 9 => (snake' = snake /\ speed_counter' = calls')
          /\ calls' = 10 =>
                /\ snake = InitialSnake(MAIN_GRID, MAIN_GRID)
                /\ speed_counter' = 0
                /\ snake' # snake
                /\ food # SteppedRight[1] =>
                      (snake' = SteppedRight /\ Len(snake') = 3
                       /\ ~game_over')
      ]_vars

\* the tenth call has returned with the snake one cell to the right
C13_Witness ==
    /\ calls = 10 /\ pc = "ready" /\ ~game_over
    /\ snake = << <<11, 10>>, <<10, 10>>, <<9, 10>> >>

\* ---- SpecDirection: a ControlBridge fed position samples and no keypoints,
\* under any sequence of update, calibrate and reset calls
InitDirection ==
    EngineInit(MainGrid) /\ BridgeInit /\ LoopInit /\ NoHold /\ NoCalls

DirectionUpdate ==
    \E head_position \in SamplePositions \cup {NoPos} :
        /\ head_position = NoPos \/ Len(position_history) < MaxSamples
        /\ BridgeUpdate(head_position, NoKeypoints)
        /\ UNCHANGED <<engineVars, loopVars, holdVars, cadenceVars, callVars>>

DirectionCalibrate ==
    \E head_position \in {Origin, NoPos} :
        /\ BridgeCalibrate(head_position)
        /\ UNCHANGED <<engineVars, loopVars, holdVars, cadenceVars, callVars>>

DirectionReset ==
    BridgeReset
    /\ UNCHANGED <<engineVars, loopVars, holdVars, cadenceVars, callVars>>

NextDirection == DirectionUpdate \/ DirectionCalibrate \/ DirectionReset

SpecDirection == InitDirection /\ [][NextDirection]_vars

\* C2: the first non-null classified direction is taken unconditionally;
\* afterwards current_direction changes only to a non-null direction that is
\* not the exact opposite of the last committed one; a None or opposite
\* classification leaves current_direction and last_move_direction unchanged.
C2_DirectionPolicy ==
    [][\A head_position \in SamplePositions \cup {NoPos} :
          BridgeUpdate(head_position, NoKeypoints) =>
            LET d == GetDirection(HistoryAfterUpdate(position_history,
                                                     head_position))
                reversal == last_move_direction # None
                            /\ d = Opposite(last_move_direction)
            IN  /\ (last_move_direction = None /\ d # None)
                   => (current_direction' = d /\ last_move_direction' = d)
                /\ (current_direction' # current_direction)
                   => (d # None /\ ~reversal /\ current_direction' = d
                       /\ last_move_direction' = d)
                /\ (d = None \/ reversal)
                   => UNCHANGED <<current_direction, last_move_direction>>
      ]_vars

\* the window now classifies LEFT while RIGHT stays committed: a reversal
\* was refused
C2_Witness ==
    /\ last_move_direction = "RIGHT" /\ current_direction = "RIGHT"
    /\ GetDirection(position_history) = "LEFT"

\* ---- SpecHold: the tick loop of main.py (lines 110-115: one update, then
\* one get_pause_trigger) while one gesture is held; a tick may carry no
\* position. The bridge starts as reset leaves it, with a cooldown still
\* running from before.
HeldKeypoints == IF held = "fist" THEN FistHand ELSE PalmHand

InitHold ==
    /\ EngineInit(MainGrid) /\ LoopInit /\ NoCalls
    /\ position_history = <<>>
    /\ neutral_position = NoPos
    /\ is_calibrated = FALSE
    /\ gr_current_direction = None
    /\ gr_last_direction = None
    /\ current_direction = None
    /\ boost_active = FALSE
    /\ pause_triggered = FALSE
    /\ last_move_direction = None
    /\ held \in {"fist", "palm"}
    /\ \/ held = "fist" /\ pause_cooldown \in 0..PAUSE_COOLDOWN
          /\ boost_cooldown = 0
       \/ held = "palm" /\ pause_cooldown = 0
          /\ boost_cooldown \in 0..BOOST_COOLDOWN
    /\ hold_start = <<pause_cooldown, boost_cooldown>>
    /\ hold_ticks = 0
    /\ hold_present = TRUE
    /\ hold_trues = 0

HoldUpdate ==
    /\ phase = "update"
    /\ hold_ticks < MaxTicks
    /\ \E head_position \in {Origin, NoPos} :
         /\ BridgeUpdate(head_position, HeldKeypoints)
         /\ hold_present' = (hold_present /\ head_position # NoPos)
    /\ hold_ticks' = hold_ticks + 1
    /\ phase' = "poll"
    /\ UNCHANGED <<engineVars, pause_trigger, held, hold_start, hold_trues,
                   cadenceVars, callVars>>

HoldPoll ==
    /\ phase = "poll"
    /\ GetPauseTrigger
    /\ hold_trues' = hold_trues + (IF pause_triggered THEN 1 ELSE 0)
    /\ phase' = "update"
    /\ UNCHANGED <<engineVars, held, hold_ticks, hold_present, hold_start,
                   cadenceVars, callVars>>

NextHold == HoldUpdate \/ HoldPoll

SpecHold == InitHold /\ [][NextHold]_vars

\* a tick of the held gesture is complete: update and get_pause_trigger done
TickDone == phase = "update" /\ hold_ticks >= 1

\* C6: from pause cooldown 0, with a closed fist and a position at each of 40
\* ticks, get_pause_trigger returns true at ticks 1 and 31 and false at every
\* other tick.
C6_PauseEdge ==
    (/\ held = "fist" /\ hold_start[1] = 0 /\ hold_present
     /\ TickDone /\ hold_ticks <= 40)
    => (pause_trigger <=> hold_ticks \in {1, 31})

\* the second true reading, at tick 31
C6_Witness ==
    /\ held = "fist" /\ hold_start[1] = 0 /\ hold_present
    /\ TickDone /\ hold_ticks = 31 /\ pause_trigger

\* C7: from boost cooldown 0, with an open palm and a position at each of 25
\* updates, get_boost is true after updates 1, 11 and 21 and false after the
\* others; and after any update boost_active is true iff the palm was open
\* and trigger_boost succeeded in that update.
C7_BoostLevel ==
    [][\A head_position \in {Origin, NoPos} :
          (phase = "update" /\ BridgeUpdate(head_position, HeldKeypoints)) =>
            /\ boost_active' <=>
                 (/\ held = "palm"
                  /\ (IF head_position = NoPos THEN boost_cooldown
                      ELSE IF boost_cooldown > 0 THEN boost_cooldown - 1
                      ELSE 0) = 0)
            /\ (/\ held = "palm" /\ hold_start[2] = 0 /\ hold_present'
                /\ hold_ticks' <= 25)
               => (boost_active' <=> hold_ticks' \in {1, 11, 21})
      ]_vars

\* the third boosted update, the 21st
C7_Witness ==
    /\ held = "palm" /\ hold_start[2] = 0 /\ hold_present
    /\ phase = "poll" /\ hold_ticks = 21 /\ boost_active

\* C8 as claimed: while the fist stays closed, however long, at most one
\* get_pause_trigger call returns true.
C8_OneReadingPerClosure == held = "fist" => hold_trues <= 1

\* C8, amended: while the fist stays closed for at most 30 ticks, at most one
\* get_pause_trigger call returns true.
C8_OneReadingPerCooldown ==
    (held = "fist" /\ hold_ticks <= 30) => hold_trues <= 1

\* a closure of 30 ticks that began with the cooldown running and has given
\* its one true reading
C8_Witness ==
    /\ held = "fist" /\ hold_start[1] > 0
    /\ TickDone /\ hold_ticks = 30 /\ hold_trues = 1

\* C22: get_direction returns None whenever the history holds fewer than 3
\* samples, in every state calibrate, update and reset lead to: an update
\* that leaves fewer than 3 samples classifies nothing and changes neither
\* the classifier's nor the bridge's direction.
C22_ShortHistoryIsNone ==
    [][\A head_position \in SamplePositions \cup {NoPos} :
          (/\ BridgeUpdate(head_position, NoKeypoints)
           /\ Len(position_history') < 3)
          => /\ GetDirection(position_history') = None
             /\ UNCHANGED <<gr_current_direction, gr_last_direction,
                            current_direction, last_move_direction>>
      ]_vars

\* two samples 40 apart, enough to classify RIGHT had there been three
C22_Witness ==
    /\ position_history = <<Origin, <<40, 0>> >>
    /\ is_calibrated
    /\ gr_current_direction = None /\ current_direction = None

\* ---- SpecClassify: a fresh ControlBridge is fed two samples at one place
\* and a third one displaced by (dx, dy), for every displacement within
\* MaxDisplacement on each axis; get_direction classifies the window
ClassifyStarts == {Origin, <<320, 240>>}
Displacements == (-MaxDisplacement)..MaxDisplacement

InitClassify ==
    EngineInit(MainGrid) /\ BridgeInit /\ LoopInit /\ NoHold /\ NoCalls

ClassifyFill ==
    \E head_position \in ClassifyStarts :
        /\ \/ position_history = <<>>
           \/ position_history = <<head_position>>
        /\ BridgeUpdate(head_position, NoKeypoints)
        /\ UNCHANGED <<engineVars, loopVars, holdVars, cadenceVars, callVars>>

\* the third sample, displaced by (dx, dy) from the two before
Displaced(dx, dy) ==
    <<position_history[1][1] + dx, position_history[1][2] + dy>>

ClassifySample(dx, dy) ==
    /\ Len(position_history) = 2
    /\ BridgeUpdate(Displaced(dx, dy), NoKeypoints)
    /\ UNCHANGED <<engineVars, loopVars, holdVars, cadenceVars, callVars>>

ClassifyStep == \E dx \in Displacements, dy \in Displacements :
                    ClassifySample(dx, dy)

NextClassify == ClassifyFill \/ ClassifyStep

SpecClassify == InitClassify /\ [][NextClassify]_vars

\* the displacement between the newest and the oldest sample of the window
\* that ClassifyStep leaves
WindowDx == position_history'[3][1] - position_history'[1][1]
WindowDy == position_history'[3][2] - position_history'[1][2]

\* C23 as claimed: with 3 samples and a displacement whose dominant axis has
\* magnitude exactly the threshold, 30, get_direction returns None: neither
\* the classifier nor the bridge takes a direction.
C23_ThresholdIsNone ==
    [][LET dx == WindowDx
           dy == WindowDy
       IN  (/\ ClassifyStep
            /\ (IF dx * dx > dy * dy THEN dx * dx ELSE dy * dy) = 30 * 30)
           => (gr_current_direction' = None /\ current_direction' = None)
      ]_vars

\* C23, amended: with 3 samples and a displacement whose dominant axis has
\* magnitude exactly 30, get_direction returns the direction of that
\* displacement; it returns None when the magnitude is 29.
C23_ThresholdInclusive ==
    [][LET dx == WindowDx
           dy == WindowDy
           dominant == IF dx * dx > dy * dy THEN dx ELSE dy
           result == IF dx * dx > dy * dy
                     THEN IF dx > 0 THEN "RIGHT" ELSE "LEFT"
                     ELSE IF dy > 0 THEN "DOWN" ELSE "UP"
       IN  ClassifyStep
           => /\ dominant * dominant = 30 * 30
                   => (gr_current_direction' = result
                       /\ current_direction' = result)
              /\ dominant * dominant = 29 * 29
                   => (gr_current_direction' = None
                       /\ current_direction' = None)
      ]_vars

\* the third sample lay exactly 30 to the left of the first and LEFT was
\* classified
C23_Witness ==
    /\ Len(position_history) = 3
    /\ position_history[3][1] - position_history[1][1] = -30
    /\ position_history[3][2] - position_history[1][2] = 12
    /\ gr_current_direction = "LEFT" /\ current_direction = "LEFT"

\* C28: with 3 samples and displacement (dx, dy) = newest - oldest,
\* get_direction takes the horizontal axis iff |dx| > |dy| strictly, a tie
\* going to the vertical axis; what it returns is None or the direction of
\* the sign on that axis (RIGHT for dx > 0, LEFT for dx < 0, DOWN for dy > 0,
\* UP for dy < 0), and it is that direction once the magnitude on the axis
\* is above the threshold; for every displacement within the range.
C28_AxisAndSign ==
    [][LET dx == WindowDx
           dy == WindowDy
           horizontal == dx * dx > dy * dy
           magnitude == IF horizontal THEN dx * dx ELSE dy * dy
           chosen == IF horizontal
                     THEN IF dx > 0 THEN "RIGHT" ELSE "LEFT"
                     ELSE IF dy > 0 THEN "DOWN" ELSE "UP"
       IN  ClassifyStep
           => /\ gr_current_direction' \in {None, chosen}
              /\ magnitude > 30 * 30 => gr_current_direction' = chosen
              /\ current_direction' = gr_current_direction'
      ]_vars

\* a tie above the threshold, up and to the right, was classified UP
C28_Witness ==
    /\ Len(position_history) = 3
    /\ position_history[3][1] - position_history[1][1] = 31
    /\ position_history[3][2] - position_history[1][2] = -31
    /\ gr_current_direction = "UP"

\* C25 as claimed: calibrate with a position records it as the neutral
\* reference, marks the classifier calibrated and leaves the history empty;
\* calibrate with no position changes nothing.
C25_CalibrateLeavesEmpty ==
    [][/\ BridgeCalibrate(Origin)
            => /\ neutral_position' = Origin /\ is_calibrated'
               /\ position_history' = <<>>
       /\ BridgeCalibrate(NoPos) => UNCHANGED <<gestureVars, bridgeVars>>
      ]_vars

\* C25, amended: calibrate with a position records it as the neutral
\* reference, marks the classifier calibrated and leaves the history holding
\* that position alone; calibrate with no position changes nothing.
C25_CalibrateSeedsHistory ==
    [][/\ BridgeCalibrate(Origin)
            => /\ neutral_position' = Origin /\ is_calibrated'
               /\ position_history' = <<Origin>>
               /\ Len(position_history') = 1
       /\ BridgeCalibrate(NoPos) => UNCHANGED <<gestureVars, bridgeVars>>
      ]_vars

\* calibrate was called on a bridge that had already classified a direction
\* from a window of at least 3 samples
C25_Witness ==
    /\ is_calibrated /\ neutral_position = Origin
    /\ position_history = <<Origin>>
    /\ gr_current_direction = "DOWN"

\* ---- SpecBridge: a ControlBridge under any sequence of update,
\* get_pause_trigger and reset calls; an update carries a position or none,
\* and no landmarks, a closed fist, an open palm or a hand that is neither
BridgeHeads == {Origin, NoPos}
BridgeHands == {NoKeypoints, FistHand, PalmHand, RelaxedHand}
\* the hands among them that is_closed_fist and is_open_palm accept
ClosedFistHands == {keypoints \in BridgeHands : IsClosedFist(keypoints)}
OpenPalmHands == {keypoints \in BridgeHands : IsOpenPalm(keypoints)}

InitBridge ==
    EngineInit(MainGrid) /\ BridgeInit /\ LoopInit /\ NoHold /\ NoCalls

\* since_pause after an update: 0 when its trigger_pause succeeded, else one
\* more for a position carried, counted up to the length of the cooldown
SincePauseAfter(head_position, keypoints) ==
    IF /\ IsClosedFist(keypoints)
       /\ TriggerSucceeds(CooldownAfterUpdate(pause_cooldown, head_position))
    THEN 0
    ELSE IF since_pause < 0 \/ head_position = NoPos
              \/ since_pause >= PAUSE_COOLDOWN
    THEN since_pause
    ELSE since_pause + 1

BridgeUpdateCall ==
    \E head_position \in BridgeHeads, keypoints \in BridgeHands :
        /\ BridgeUpdate(head_position, keypoints)
        /\ last_call' = IF IsClosedFist(keypoints) THEN "update_fist"
                        ELSE "update_open"
        /\ since_pause' = SincePauseAfter(head_position, keypoints)
        /\ UNCHANGED <<engineVars, loopVars, holdVars, cadenceVars>>

BridgePollCall ==
    /\ GetPauseTrigger
    /\ last_call' = "poll"
    /\ UNCHANGED <<engineVars, phase, holdVars, cadenceVars, since_pause>>

BridgeResetCall ==
    /\ BridgeReset
    /\ last_call' = "reset"
    /\ UNCHANGED <<engineVars, loopVars, holdVars, cadenceVars, since_pause>>

NextBridge == BridgeUpdateCall \/ BridgePollCall \/ BridgeResetCall

SpecBridge == InitBridge /\ [][NextBridge]_vars

\* C21: in an update, trigger_pause (called on a closed fist) succeeds and
\* sets the pause cooldown to 30 iff the cooldown, decremented by one floored
\* at zero when the update carries a position, is 0, and otherwise leaves it;
\* trigger_boost (called on an open palm) does the same with 10. The pause
\* cooldown stays in 0..30 and the boost cooldown in 0..10, and a
\* trigger_pause that succeeds after another comes at least 30
\* position-carrying updates later.
C21_CooldownRateLimiter ==
    [][\A head_position \in BridgeHeads, keypoints \in BridgeHands :
          BridgeUpdate(head_position, keypoints)
          => LET after(cooldown) ==
                     IF head_position = NoPos THEN cooldown
                     ELSE IF cooldown > 0 THEN cooldown - 1 ELSE 0
                 pause_cd == after(pause_cooldown)
                 boost_cd == after(boost_cooldown)
             IN  /\ pause_cooldown \in 0..30 /\ pause_cooldown' \in 0..30
                 /\ boost_cooldown \in 0..10 /\ boost_cooldown' \in 0..10
                 /\ IF keypoints \in ClosedFistHands /\ pause_cd = 0
                    THEN pause_triggered' /\ pause_cooldown' = 30
                    ELSE pause_cooldown' = pause_cd
                 /\ (keypoints \in ClosedFistHands /\ pause_cd > 0)
                      => pause_triggered' = pause_triggered
                 /\ IF keypoints \in OpenPalmHands /\ boost_cd = 0
                    THEN boost_active' /\ boost_cooldown' = 10
                    ELSE ~boost_active' /\ boost_cooldown' = boost_cd
                 /\ (keypoints \in ClosedFistHands /\ pause_cd = 0
                        /\ since_pause >= 0)
                      => since_pause
                           + (IF head_position = NoPos THEN 0 ELSE 1) >= 30
      ]_vars

\* thirty updates with a position have run since a trigger_pause succeeded,
\* the last of them just now, and the cooldown is back at 0
C21_Witness ==
    /\ since_pause = 30 /\ pause_cooldown = 0
    /\ last_call = "update_open"
    /\ boost_cooldown = 10

\* C24 as claimed: an update without a position leaves the history untouched
\* and counts as a cooldown tick: each cooldown is one lower, floored at
\* zero. Stated for the updates that carry no landmarks, after which no
\* trigger is called.
C24_AbsentUpdateTicksCooldowns ==
    [][BridgeUpdate(NoPos, NoKeypoints)
          => /\ position_history' = position_history
             /\ pause_cooldown' =
                  (IF pause_cooldown > 0 THEN pause_cooldown - 1 ELSE 0)
             /\ boost_cooldown' =
                  (IF boost_cooldown > 0 THEN boost_cooldown - 1 ELSE 0)
      ]_vars

\* C24, amended: an update without a position leaves the history untouched
\* and is no cooldown tick either: both cooldowns keep their values.
C24_AbsentUpdateIsNoOp ==
    [][BridgeUpdate(NoPos, NoKeypoints)
          => UNCHANGED <<position_history, pause_cooldown, boost_cooldown>>
      ]_vars

\* after the update in which trigger_pause succeeded, an update without a
\* position has run: the cooldown is still 30
C24_Witness ==
    /\ last_call = "update_open"
    /\ since_pause = 0 /\ pause_cooldown = 30
    /\ Len(position_history) >= 1

\* C26: an update that sees the fist not closed clears the one-shot pause
\* flag, so a trigger set by an earlier update and not yet read is dropped
\* and the get_pause_trigger that follows returns false; get_pause_trigger
\* returns the flag and clears it, so a second call with no update in
\* between returns false.
C26_PendingPauseDropped ==
    [][/\ last_call' = "update_open" => ~pause_triggered'
       /\ BridgePollCall
            => /\ pause_trigger' = pause_triggered
               /\ ~pause_triggered'
               /\ last_call \in {"update_open", "poll"} => ~pause_trigger'
      ]_vars

\* trigger_pause succeeded in one update and the next update (with a
\* position) saw the fist open; no get_pause_trigger came in between, or it
\* would have returned true: the flag was dropped unread
C26_Witness ==
    /\ last_call = "update_open" /\ ~pause_trigger /\ ~pause_triggered
    /\ since_pause = 1 /\ pause_cooldown = 29
    /\ Len(position_history) = 2

\* C27: reset clears the position history and the bridge's direction, boost,
\* pause and last committed direction, and leaves both cooldowns at their
\* values, so that a closed fist seen after a reset made while the pause
\* cooldown runs sets no pause flag.
C27_ResetKeepsCooldowns ==
    [][/\ BridgeResetCall
            => /\ position_history' = <<>>
               /\ current_direction' = None /\ last_move_direction' = None
               /\ ~boost_active' /\ ~pause_triggered'
               /\ pause_cooldown' = pause_cooldown
               /\ boost_cooldown' = boost_cooldown
       /\ (last_call = "reset" /\ last_call' = "update_fist"
             /\ pause_cooldown > 1)
            => (~pause_triggered' /\ pause_cooldown' >= pause_cooldown - 1)
      ]_vars

\* reset was called one update after trigger_pause had succeeded, and then a
\* closed fist was shown: no pause flag is set
C27_Witness ==
    /\ last_call = "update_fist" /\ ~pause_triggered
    /\ position_history = <<Origin>>
    /\ since_pause = 2 /\ pause_cooldown = 28

(***************************************************************************)
(* Invariants of SnakeGame, checked under Spec                             *)
(***************************************************************************)
\* C29: paused and game_over are never both true in any state reachable from
\* construction by update, toggle_pause and reset calls: a paused game takes
\* no movement step, toggle_pause does nothing once the game is over, and
\* reset clears both flags.
C29_NeverPausedAndOver == ~(paused /\ game_over)

\* a game that went on to two meals has ended, and no toggle_pause made
\* before or after has left it paused
C29_Witness ==
    /\ pc = "ready" /\ game_over /\ ~paused
    /\ grid_width >= 4 /\ grid_height >= 2
    /\ score = 20 /\ Len(snake) = 5

\* C30: on a grid of width at least 4 and height at least 1, in every
\* reachable state every snake cell lies inside the grid and no cell appears
\* twice in the snake sequence.
C30_SnakeInsideAndSimple ==
    (grid_width >= 4 /\ grid_height >= 1)
        => /\ Cells(snake) \subseteq GridCells(grid_width, grid_height)
           /\ Cardinality(Cells(snake)) = Len(snake)

\* a snake grown to six cells on the 4x2 grid, head on the right edge
C30_Witness ==
    /\ pc = "ready" /\ ~game_over
    /\ grid_width = 4 /\ grid_height = 2
    /\ Len(snake) = 6 /\ snake[1][1] = 3

\* C31: a movement step never places the new head on the cell directly
\* behind the head, whatever commands came before it: the cell a stepping
\* update call enters or tests is never snake[2], so no game ends by an
\* immediate reversal into the neck.
C31_NoReversalIntoNeck ==
    [][\A direction_command \in Commands, boost \in BOOLEAN :
          SteppingUpdate(direction_command, boost)
          => /\ SteppedCell(direction_command) # snake[2]
             /\ snake[2] = NewHead(snake, Opposite(direction))
      ]_vars

\* a game ended by a step into the snake's own body: the cell ahead of the
\* head in the committed direction is a snake cell, and it is not the neck
C31_Witness ==
    /\ pc = "ready" /\ game_over
    /\ grid_width >= 4 /\ grid_height >= 2
    /\ NewHead(snake, direction) \in Cells(snake)
    /\ NewHead(snake, direction) # snake[2]

\* C32: reset, called in any reachable engine state, restores the state of a
\* freshly constructed engine of the same grid up to the food cell, the step
\* counter of 0 included, so that the first movement step after a reset comes
\* on the 10th non-boosted update call. Stated for the grids that hold the
\* initial snake: when reset returns, the engine is as __init__ leaves it.
C32_ResetRestoresConstruction ==
    [][(pc = "reset_spawn" /\ pc' = "ready" /\ grid_width >= 4)
          => /\ ResetOutcome'
             /\ food' \notin Cells(snake')
             /\ speed_counter' = 0
      ]_vars

\* C33: in every reachable engine state len(snake) = 3 + score / 10, and
\* score is a non-negative multiple of 10.
C33_LengthTracksScore ==
    /\ score >= 0
    /\ score % FOOD_SCORE = 0
    /\ Len(snake) = 3 + score \div FOOD_SCORE

\* the third meal has just been eaten on the 4x2 grid and the new food is
\* about to be drawn
C33_Witness ==
    /\ pc = "move_spawn"
    /\ grid_width = 4 /\ grid_height = 2
    /\ score = 30 /\ Len(snake) = 6
====
